---- MODULE Spec2Model ----
(***************************************************************************)
(* Authentication and authorization core of the SP Website backend:        *)
(* the user store, JWT issuance and verification, identity resolution,     *)
(* the admin guard, and the auth / users route handlers.  Every request    *)
(* handler is one atomic action on the user store.                         *)
(* The store's own tables (models_db, database) are not part of the        *)
(* sources; rows carry the fields the handlers read and write.             *)
(***************************************************************************)
EXTENDS Integers, FiniteSets, Sequences, TLC

\* ------------------------------------------------------------------ bounds
\* Largest id the store hands out (bounds the number of rows).
MaxId == 2

\* --------------------------------------------------------------- constants
ACCESS_TOKEN_EXPIRE_MINUTES == 30
REFRESH_TOKEN_EXPIRE_DAYS == 7
\* timedelta(days=7) in minutes, the unit of the model's clock
REFRESH_TOKEN_EXPIRE_MINUTES == REFRESH_TOKEN_EXPIRE_DAYS * 24 * 60

HTTP_200_OK == 200
HTTP_400_BAD_REQUEST == 400
HTTP_401_UNAUTHORIZED == 401
HTTP_403_FORBIDDEN == 403
HTTP_404_NOT_FOUND == 404

\* class UserRole(str, Enum)
USER == "user"
ADMIN == "admin"
UserRole == {USER, ADMIN}

\* Python's None (an absent claim, an absent field)
None == "None"

\* ------------------------------------------------------------ input sets
Emails == {"a@x.com", "b@x.com"}
Names == {"A", "B"}
Passwords == {"pw123456", "pw654321"}
Ids == 1..MaxId

\* UserCreate: email, name, password, role (client-supplied, default USER)
UserCreate == [email : Emails, name : Names, password : Passwords, role : UserRole]
\* UserBase: email, name
UserBase == [email : Emails, name : Names]

\* --------------------------------------------------------------- variables
VARIABLES
    users,          \* the rows of the users table: a set of UserDB records
    now,            \* datetime.utcnow(), in minutes since the start
    admin_created,  \* number of create-admin requests that have succeeded
    req,            \* the request being answered (NoRequest between requests)
    resp,           \* its response, or the HTTPException raised for it
    before,         \* the rows of the users table when the request arrived
    issued,         \* history: which presentable token was issued to which user id
    conc            \* the requests in flight when handlers interleave: per
                    \* worker its position, request and local variables

vars == <<users, now, admin_created, req, resp, before, issued, conc>>

\* ------------------------------------------------------- credential hasher
\* pwd_context.hash: an opaque bcrypt value from which the plaintext is not read
\* back; verification is the only operation on it.  (The per-call salt is left
\* out: no operation of the handlers depends on it.)
get_password_hash(password) == [scheme |-> "bcrypt", digest_of |-> password]

verify_password(plain_password, hashed_password) ==
    /\ hashed_password.scheme = "bcrypt"
    /\ hashed_password.digest_of = plain_password

\* ------------------------------------------------------------ token service
\* A token is its claim set plus whether its signature verifies under
\* settings.secret_key (sig = FALSE: a tampered or foreign-key token).
Subjects == Emails \cup {None}
TokenTypes == {None, "refresh"}

\* jwt.encode of data + exp under the secret key
MutCreateTokenIgnoresDelta(data, expires_delta, t) ==
    [sub |-> data.sub, typ |-> data.typ,
     exp |-> t + ACCESS_TOKEN_EXPIRE_MINUTES, sig |-> TRUE]

create_access_token(data, expires_delta, t) ==
    [sub |-> data.sub, typ |-> data.typ, exp |-> t + expires_delta, sig |-> TRUE]

\* jose's jwt.decode: signature first, then exp (rejected when exp < now);
\* JWTError is raised on either failure.
JWTError == [error |-> "JWTError"]

MutJwtDecodeNoExpiry(token, t) ==
    IF ~token.sig THEN JWTError
    ELSE [sub |-> token.sub, typ |-> token.typ, exp |-> token.exp]

jwt_decode(token, t) ==
    IF ~token.sig THEN JWTError
    ELSE IF token.exp < t THEN JWTError
    ELSE [sub |-> token.sub, typ |-> token.typ, exp |-> token.exp]

\* Tokens a client may present: the access and the refresh token the server
\* issues at time 0 for each email, the same claim sets without sub, and each
\* of these with a signature that does not verify (tampered, or signed with
\* another key).
TokenLifetime(typ) ==
    IF typ = "refresh" THEN REFRESH_TOKEN_EXPIRE_MINUTES ELSE ACCESS_TOKEN_EXPIRE_MINUTES

TokenInputs ==
    {[sub |-> sub, typ |-> typ, exp |-> 0 + TokenLifetime(typ), sig |-> sig] :
        sub \in Subjects, typ \in TokenTypes, sig \in BOOLEAN}

\* placeholders for absent parts of a response
NoToken == [sub |-> None, typ |-> None, exp |-> -1, sig |-> FALSE]
NoHash == [scheme |-> None, digest_of |-> None]
NoUser == [id |-> 0, email |-> None, name |-> None, hashed_password |-> NoHash, role |-> None]
NoSummary == [id |-> 0, email |-> None, name |-> None, role |-> None]

\* --------------------------------------------------------------- user store
\* db.query(UserDB).filter(UserDB.email == email): the matching rows;
\* .first() returns one of them, None when there is none.
get_user_by_email(db, email) == {u \in db : u.email = email}

\* db.query(UserDB).filter(UserDB.id == user_id)
get_user_by_id(db, user_id) == {u \in db : u.id = user_id}

\* db.query(UserDB).filter(UserDB.role == UserRole.ADMIN)
existing_admins(db) == {u \in db : u.role = ADMIN}

\* ids the store can assign to a new row
FreeIds(db) == {i \in Ids : \A u \in db : u.id # i}

\* the row create_user_in_db adds: the password is stored hashed, the role
\* is the one in user_data
create_user_in_db(id, user_data) ==
    [id |-> id, email |-> user_data.email, name |-> user_data.name,
     hashed_password |-> get_password_hash(user_data.password),
     role |-> user_data.role]

\* the user summary handlers return: id, email, name, role (never the hash)
Summary(u) == [id |-> u.id, email |-> u.email, name |-> u.name, role |-> u.role]

\* ------------------------------------------------- requests and responses
\* A request: the operation and its parameters (bearer token, body and path
\* fields); the fields an operation does not take hold a placeholder.
Request(op, token, email, name, password, role, user_id) ==
    [op |-> op, token |-> token, email |-> email, name |-> name,
     password |-> password, role |-> role, user_id |-> user_id]

NoRequest == Request(None, NoToken, None, None, None, None, 0)

\* What the client gets back: the HTTP status, the error detail or message,
\* and the body parts the handlers return.
Response(status, detail, access, refresh, user, listing) ==
    [status |-> status, detail |-> detail,
     access_token |-> access, refresh_token |-> refresh,
     user |-> user, listing |-> listing]

\* an HTTPException raised by a handler or a dependency
Raise(status, detail) == Response(status, detail, NoToken, NoToken, NoSummary, {})

NoResponse == Raise(0, None)

\* A request arrives while no other is being answered: each handler runs to
\* completion on the store before the next request is taken.
Arrive(r) ==
    /\ req = NoRequest
    /\ req' = r
    /\ before' = users
    /\ UNCHANGED <<issued, conc>>

\* ------------------------------------------------------ concurrent workers
\* Two requests can be in flight at once (one per worker thread).  A worker
\* holds its request, the objects its session has loaded and the status it
\* answered with.
Procs == {"w1", "w2"}

Idle == [pc |-> "idle", req |-> NoRequest, current_user |-> NoUser,
         user |-> NoUser, status |-> 0]

\* -------------------------------------------------------- identity resolver
\* get_current_user: the outcomes of resolving a bearer token against the
\* store at time t: either the credentials exception or a stored user.
credentials_exception ==
    [ok |-> FALSE, status |-> HTTP_401_UNAUTHORIZED,
     detail |-> "Could not validate credentials", user |-> NoUser]

get_current_user(token, db, t) ==
    LET payload == jwt_decode(token, t) IN
    IF payload = JWTError THEN {credentials_exception}
    ELSE IF payload.sub = None THEN {credentials_exception}
    ELSE IF get_user_by_email(db, payload.sub) = {} THEN {credentials_exception}
    ELSE {[ok |-> TRUE, status |-> HTTP_200_OK, detail |-> "", user |-> u] :
             u \in get_user_by_email(db, payload.sub)}

\* get_current_admin_user: get_current_user, then the role check
admin_required ==
    [ok |-> FALSE, status |-> HTTP_403_FORBIDDEN,
     detail |-> "Admin access required", user |-> NoUser]

MutAdminGuardNoRoleCheck(token, db, t) == get_current_user(token, db, t)

get_current_admin_user(token, db, t) ==
    {IF r.ok /\ r.user.role # ADMIN THEN admin_required ELSE r :
        r \in get_current_user(token, db, t)}

\* ---------------------------------------------------------------- Init
Init ==
    /\ users = {}
    /\ now = 0
    /\ admin_created = 0
    /\ req = NoRequest
    /\ resp = NoResponse
    /\ before = {}
    /\ issued = {}
    /\ conc = [p \in Procs |-> Idle]

\* the access + refresh pair register and login issue for a subject
access_for(email, t) ==
    create_access_token([sub |-> email, typ |-> None], ACCESS_TOKEN_EXPIRE_MINUTES, t)

refresh_for(email, t) ==
    create_access_token([sub |-> email, typ |-> "refresh"], REFRESH_TOKEN_EXPIRE_MINUTES, t)

\* ------------------------------------------------------------- auth flows
\* register's and create-admin's "if existing_user" test
MutEmailRegisteredNever(db, email) == FALSE

email_registered(db, email) == get_user_by_email(db, email) # {}

\* "Force role to USER regardless of input"
MutRegisterKeepsClientRole(user_data) == user_data

register_data(user_data) == [user_data EXCEPT !.role = USER]

\* POST /auth/register
register(user_data) ==
    /\ Arrive(Request("register", NoToken, user_data.email, user_data.name,
                      user_data.password, user_data.role, 0))
    /\ IF email_registered(users, user_data.email)
       THEN /\ resp' = Raise(HTTP_400_BAD_REQUEST, "Email already registered")
            /\ UNCHANGED <<users, now, admin_created>>
       ELSE \E id \in FreeIds(users) :
               LET user == create_user_in_db(id, register_data(user_data)) IN
               /\ users' = users \cup {user}
               /\ resp' = Response(HTTP_200_OK, "",
                                   access_for(user.email, now), refresh_for(user.email, now),
                                   Summary(user), {})
               /\ UNCHANGED <<now, admin_created>>

\* create-admin's "if existing_admin" test
MutAdminExistsNever(db) == FALSE

admin_exists(db) == existing_admins(db) # {}

\* POST /auth/create-admin
create_admin_user(user_data) ==
    /\ Arrive(Request("create_admin_user", NoToken, user_data.email, user_data.name,
                      user_data.password, user_data.role, 0))
    /\ IF admin_exists(users)
       THEN /\ resp' = Raise(HTTP_400_BAD_REQUEST, "Admin user already exists")
            /\ UNCHANGED <<users, now, admin_created>>
       ELSE IF email_registered(users, user_data.email)
       THEN /\ resp' = Raise(HTTP_400_BAD_REQUEST, "Email already registered")
            /\ UNCHANGED <<users, now, admin_created>>
       ELSE \E id \in FreeIds(users) :
               LET admin_user == create_user_in_db(id, [user_data EXCEPT !.role = ADMIN]) IN
               /\ users' = users \cup {admin_user}
               /\ admin_created' = admin_created + 1
               /\ resp' = Response(HTTP_200_OK, "Admin user created successfully",
                                   access_for(admin_user.email, now), NoToken,
                                   Summary(admin_user), {})
               /\ UNCHANGED now

\* promote_to_admin's target lookup
MutPromoteTargetOnlyNonAdmins(db, email) == {u \in db : u.email = email /\ u.role # ADMIN}

promote_target(db, email) == get_user_by_email(db, email)

\* POST /auth/promote-to-admin
promote_to_admin(token, email) ==
    /\ Arrive(Request("promote_to_admin", token, email, None, None, None, 0))
    /\ \E cu \in get_current_admin_user(token, users, now) :
        IF ~cu.ok
        THEN /\ resp' = Raise(cu.status, cu.detail)
             /\ UNCHANGED <<users, now, admin_created>>
        ELSE IF promote_target(users, email) = {}
        THEN /\ resp' = Raise(HTTP_404_NOT_FOUND, "User not found")
             /\ UNCHANGED <<users, now, admin_created>>
        ELSE \E user \in promote_target(users, email) :
            IF user.role = ADMIN
            THEN /\ resp' = Raise(HTTP_200_OK, "User is already an admin")
                 /\ UNCHANGED <<users, now, admin_created>>
            ELSE LET promoted == [user EXCEPT !.role = ADMIN] IN
                 /\ users' = (users \ {user}) \cup {promoted}
                 /\ resp' = Response(HTTP_200_OK, "User promoted to admin",
                                     NoToken, NoToken, Summary(promoted), {})
                 /\ UNCHANGED <<now, admin_created>>

\* authenticate_user: the user when email and password match, else False
MutAuthenticateNoPasswordCheck(db, email, password) == get_user_by_email(db, email)

authenticate_user(db, email, password) ==
    {u \in get_user_by_email(db, email) : verify_password(password, u.hashed_password)}

\* POST /auth/login
login(username, password) ==
    /\ Arrive(Request("login", NoToken, username, None, password, None, 0))
    /\ UNCHANGED <<users, now, admin_created>>
    /\ IF get_user_by_email(users, username) = {}
       THEN resp' = Raise(HTTP_401_UNAUTHORIZED, "Incorrect email or password")
       ELSE \E first \in get_user_by_email(users, username) :
               IF authenticate_user({first}, username, password) = {}
               THEN resp' = Raise(HTTP_401_UNAUTHORIZED, "Incorrect email or password")
               ELSE resp' = Response(HTTP_200_OK, "",
                                     access_for(first.email, now), refresh_for(first.email, now),
                                     Summary(first), {})

\* POST /auth/logout
logout ==
    /\ Arrive(Request("logout", NoToken, None, None, None, None, 0))
    /\ resp' = Raise(HTTP_200_OK, "Successfully logged out")
    /\ UNCHANGED <<users, now, admin_created>>

\* refresh's test on the decoded payload
MutRefreshAcceptsAnyType(payload) == payload.sub = None

refresh_rejects(payload) == payload.sub = None \/ payload.typ # "refresh"

\* POST /auth/refresh
refresh_token(token) ==
    LET payload == jwt_decode(token, now) IN
    /\ Arrive(Request("refresh_token", token, None, None, None, None, 0))
    /\ IF payload = JWTError
       THEN resp' = Raise(HTTP_401_UNAUTHORIZED, "Invalid refresh token")
       ELSE IF refresh_rejects(payload)
       THEN resp' = Raise(HTTP_401_UNAUTHORIZED, "Invalid refresh token")
       ELSE resp' = Response(HTTP_200_OK, "", access_for(payload.sub, now),
                             NoToken, NoSummary, {})
    /\ UNCHANGED <<users, now, admin_created>>

\* ------------------------------------------------------------ users routes
\* GET /users/
get_users(token) ==
    /\ Arrive(Request("get_users", token, None, None, None, None, 0))
    /\ \E cu \in get_current_admin_user(token, users, now) :
           IF ~cu.ok
           THEN resp' = Raise(cu.status, cu.detail)
           ELSE resp' = Response(HTTP_200_OK, "", NoToken, NoToken, NoSummary,
                                 {Summary(u) : u \in users})
    /\ UNCHANGED <<users, now, admin_created>>

\* GET /users/me
get_current_user_profile(token) ==
    /\ Arrive(Request("get_current_user_profile", token, None, None, None, None, 0))
    /\ \E cu \in get_current_user(token, users, now) :
           IF ~cu.ok
           THEN resp' = Raise(cu.status, cu.detail)
           ELSE resp' = Response(HTTP_200_OK, "", NoToken, NoToken, Summary(cu.user), {})
    /\ UNCHANGED <<users, now, admin_created>>

\* update_user's "email is being changed and the new email already exists"
MutUpdateNoEmailCheck(db, user, user_update) == FALSE

update_email_conflict(db, user, user_update) ==
    /\ user_update.email # user.email
    /\ get_user_by_email(db, user_update.email) # {}

\* update_user's "own profile or admin" test
MutUpdateAnyCaller(current_user, user_id) == FALSE

update_forbidden(current_user, user_id) ==
    current_user.id # user_id /\ current_user.role # ADMIN

\* PUT /users/{user_id}.  The commit of the two assignments cannot fail once
\* the email check has passed and the request runs alone, so the handler's
\* rollback branch ("Failed to update user") has no step here.
update_user(token, user_id, user_update) ==
    /\ Arrive(Request("update_user", token, user_update.email, user_update.name,
                      None, None, user_id))
    /\ \E cu \in get_current_user(token, users, now) :
        IF ~cu.ok
        THEN /\ resp' = Raise(cu.status, cu.detail)
             /\ UNCHANGED <<users, now, admin_created>>
        ELSE IF get_user_by_id(users, user_id) = {}
        THEN /\ resp' = Raise(HTTP_404_NOT_FOUND, "User not found")
             /\ UNCHANGED <<users, now, admin_created>>
        ELSE \E user \in get_user_by_id(users, user_id) :
            IF update_forbidden(cu.user, user_id)
            THEN /\ resp' = Raise(HTTP_403_FORBIDDEN, "You can only update your own profile")
                 /\ UNCHANGED <<users, now, admin_created>>
            ELSE IF update_email_conflict(users, user, user_update)
            THEN /\ resp' = Raise(HTTP_400_BAD_REQUEST, "Email already exists")
                 /\ UNCHANGED <<users, now, admin_created>>
            ELSE LET updated == [user EXCEPT !.email = user_update.email,
                                             !.name = user_update.name] IN
                 /\ users' = (users \ {user}) \cup {updated}
                 /\ resp' = Response(HTTP_200_OK, "", NoToken, NoToken, Summary(updated), {})
                 /\ UNCHANGED <<now, admin_created>>

\* delete_user's "only admins can delete users" test
MutDeleteAnyCaller(current_user) == FALSE

delete_needs_admin(current_user) == current_user.role # ADMIN

\* delete_user's "prevent admins from deleting their own account" test
MutDeleteSelfAllowed(current_user, user_id) == FALSE

delete_is_self(current_user, user_id) == current_user.id = user_id

\* DELETE /users/{user_id}
delete_user(token, user_id) ==
    /\ Arrive(Request("delete_user", token, None, None, None, None, user_id))
    /\ \E cu \in get_current_user(token, users, now) :
        IF ~cu.ok
        THEN /\ resp' = Raise(cu.status, cu.detail)
             /\ UNCHANGED <<users, now, admin_created>>
        ELSE IF get_user_by_id(users, user_id) = {}
        THEN /\ resp' = Raise(HTTP_404_NOT_FOUND, "User not found")
             /\ UNCHANGED <<users, now, admin_created>>
        ELSE \E user \in get_user_by_id(users, user_id) :
            IF delete_needs_admin(cu.user)
            THEN /\ resp' = Raise(HTTP_403_FORBIDDEN, "Only administrators can delete users")
                 /\ UNCHANGED <<users, now, admin_created>>
            ELSE IF delete_is_self(cu.user, user_id)
            THEN /\ resp' = Raise(HTTP_400_BAD_REQUEST, "Cannot delete your own account")
                 /\ UNCHANGED <<users, now, admin_created>>
            ELSE /\ users' = users \ {user}
                 /\ resp' = Raise(HTTP_200_OK, "User deleted successfully")
                 /\ UNCHANGED <<now, admin_created>>

\* The response is sent back: the request is over and the next can be taken.
respond ==
    /\ req # NoRequest
    /\ req' = NoRequest
    /\ resp' = NoResponse
    /\ before' = users
    /\ UNCHANGED <<users, now, admin_created, issued, conc>>

\* ------------------------------------------------------------------ clock
\* Time passes between requests.  The instants visited are the start and the
\* ends of the two token lifetimes, each alone and one after the other, so
\* both kinds of token are seen before, at and after their expiry.
Instants ==
    {0, ACCESS_TOKEN_EXPIRE_MINUTES, REFRESH_TOKEN_EXPIRE_MINUTES,
     REFRESH_TOKEN_EXPIRE_MINUTES + ACCESS_TOKEN_EXPIRE_MINUTES}

Tick(t) ==
    /\ req = NoRequest
    /\ t > now
    /\ now' = t
    /\ UNCHANGED <<users, admin_created, req, resp, before, issued, conc>>

\* ------------------------------------------------------------------- Next
Next ==
    \/ \E user_data \in UserCreate : register(user_data)
    \/ \E user_data \in UserCreate : create_admin_user(user_data)
    \/ \E token \in TokenInputs, email \in Emails : promote_to_admin(token, email)
    \/ \E username \in Emails, password \in Passwords : login(username, password)
    \/ logout
    \/ \E token \in TokenInputs : refresh_token(token)
    \/ \E token \in TokenInputs : get_users(token)
    \/ \E token \in TokenInputs : get_current_user_profile(token)
    \/ \E token \in TokenInputs, user_id \in Ids, user_update \in UserBase :
          update_user(token, user_id, user_update)
    \/ \E token \in TokenInputs, user_id \in Ids : delete_user(token, user_id)
    \/ respond
    \/ \E t \in Instants : Tick(t)

Spec == Init /\ [][Next]_vars

\* ------------------------------------------------ token issuance history
\* The same program, with a record of who received each access token a
\* client can present later (the access tokens of TokenInputs; those issued
\* at other instants differ in exp).  register, login and create-admin issue
\* to the user in their response.  refresh returns an access token to the
\* holder of a refresh token, who received the same access token together
\* with that refresh token when both are issued at the same instant, so it
\* adds no recipient.
Recipients ==
    IF resp.status # HTTP_200_OK THEN {}
    ELSE IF req.op \in {"register", "login", "create_admin_user"} THEN {resp.user.id}
    ELSE {}

respond_issued ==
    /\ req # NoRequest
    /\ req' = NoRequest
    /\ resp' = NoResponse
    /\ before' = users
    /\ issued' = issued \cup
          {[token |-> tk, id |-> i] :
              tk \in {resp.access_token} \cap TokenInputs,
              i \in Recipients}
    /\ UNCHANGED <<users, now, admin_created, conc>>

NextIssued ==
    \/ \E user_data \in UserCreate : register(user_data)
    \/ \E user_data \in UserCreate : create_admin_user(user_data)
    \/ \E token \in TokenInputs, email \in Emails : promote_to_admin(token, email)
    \/ \E username \in Emails, password \in Passwords : login(username, password)
    \/ logout
    \/ \E token \in TokenInputs : refresh_token(token)
    \/ \E token \in TokenInputs : get_users(token)
    \/ \E token \in TokenInputs : get_current_user_profile(token)
    \/ \E token \in TokenInputs, user_id \in Ids, user_update \in UserBase :
          update_user(token, user_id, user_update)
    \/ \E token \in TokenInputs, user_id \in Ids : delete_user(token, user_id)
    \/ respond_issued
    \/ \E t \in Instants : Tick(t)

SpecIssued == Init /\ [][NextIssued]_vars

\* --------------------------------------------------- interleaved handlers
\* register, create-admin and delete_user as the steps a worker takes while
\* another worker's request runs in between: each query of the store is one
\* step, each commit another.  Time does not pass during the race.

\* The users table declares email unique: the commit of a row whose email is
\* already in the table raises IntegrityError and writes nothing.
MutNoUniqueEmail(db, row) == FALSE

email_unique_violation(db, row) == \E u \in db : u.email = row.email

\* Stores a race can start from: rows with distinct ids and distinct emails.
RaceRows ==
    {create_user_in_db(id, [email |-> e, name |-> "A", password |-> "pw123456",
                            role |-> r]) :
        id \in Ids, e \in Emails, r \in UserRole}

RaceStores ==
    {db \in SUBSET RaceRows :
        \A u, v \in db : (u.id = v.id \/ u.email = v.email) => u = v}

\* Requests that race: register and create-admin bodies, and delete_user
\* with a well-signed bearer token.
RaceRequests ==
    {Request(op, NoToken, d.email, d.name, d.password, d.role, 0) :
        op \in {"register", "create_admin_user"},
        d \in {c \in UserCreate : c.name = "A" /\ c.password = "pw123456"}}
    \cup
    {Request("delete_user", token, None, None, None, None, user_id) :
        token \in {t \in TokenInputs : t.sig /\ t.sub # None}, user_id \in Ids}

InitRace ==
    /\ users \in RaceStores
    /\ now = 0
    /\ admin_created = IF admin_exists(users) THEN 1 ELSE 0
    /\ req = NoRequest
    /\ resp = NoResponse
    /\ before = users
    /\ issued = {}
    /\ conc = [p \in Procs |-> Idle]

\* the body of the request a worker holds, as register and create-admin read it
user_data_of(r) ==
    [email |-> r.email, name |-> r.name, password |-> r.password, role |-> r.role]

\* worker p ends its request with the given status
Done(p, status) ==
    conc' = [conc EXCEPT ![p].pc = "done", ![p].status = status]

\* a request reaches worker p
begin(p, r) ==
    /\ conc[p].pc = "idle"
    /\ conc' = [conc EXCEPT ![p].req = r,
                            ![p].pc = IF r.op = "delete_user" THEN "resolve" ELSE "check"]
    /\ UNCHANGED <<users, now, admin_created, req, resp, before, issued>>

\* register: the existing_user query
register_check(p) ==
    /\ conc[p].pc = "check"
    /\ conc[p].req.op = "register"
    /\ IF email_registered(users, conc[p].req.email)
       THEN Done(p, HTTP_400_BAD_REQUEST)
       ELSE conc' = [conc EXCEPT ![p].pc = "insert"]
    /\ UNCHANGED <<users, now, admin_created, req, resp, before, issued>>

\* register: create_user_in_db's add and commit
register_insert(p) ==
    /\ conc[p].pc = "insert"
    /\ conc[p].req.op = "register"
    /\ LET user_data == register_data(user_data_of(conc[p].req)) IN
       IF email_unique_violation(users, user_data)
       THEN /\ Done(p, 500)
            /\ UNCHANGED users
       ELSE \E id \in FreeIds(users) :
               /\ users' = users \cup {create_user_in_db(id, user_data)}
               /\ Done(p, HTTP_200_OK)
    /\ UNCHANGED <<now, admin_created, req, resp, before, issued>>

\* create-admin: the existing_admin and existing_user queries
create_admin_check(p) ==
    /\ conc[p].pc = "check"
    /\ conc[p].req.op = "create_admin_user"
    /\ IF admin_exists(users) \/ email_registered(users, conc[p].req.email)
       THEN Done(p, HTTP_400_BAD_REQUEST)
       ELSE conc' = [conc EXCEPT ![p].pc = "insert"]
    /\ UNCHANGED <<users, now, admin_created, req, resp, before, issued>>

\* create-admin: create_user_in_db's add and commit
create_admin_insert(p) ==
    /\ conc[p].pc = "insert"
    /\ conc[p].req.op = "create_admin_user"
    /\ LET user_data == [user_data_of(conc[p].req) EXCEPT !.role = ADMIN] IN
       IF email_unique_violation(users, user_data)
       THEN /\ Done(p, 500)
            /\ UNCHANGED <<users, admin_created>>
       ELSE \E id \in FreeIds(users) :
               /\ users' = users \cup {create_user_in_db(id, user_data)}
               /\ admin_created' = admin_created + 1
               /\ Done(p, HTTP_200_OK)
    /\ UNCHANGED <<now, req, resp, before, issued>>

\* delete_user: the get_current_user dependency
delete_resolve(p) ==
    /\ conc[p].pc = "resolve"
    /\ \E cu \in get_current_user(conc[p].req.token, users, now) :
          IF ~cu.ok
          THEN Done(p, cu.status)
          ELSE conc' = [conc EXCEPT ![p].pc = "checks", ![p].current_user = cu.user]
    /\ UNCHANGED <<users, now, admin_created, req, resp, before, issued>>

\* delete_user: the target query, then the role and self checks on the
\* current_user loaded before
delete_checks(p) ==
    /\ conc[p].pc = "checks"
    /\ IF get_user_by_id(users, conc[p].req.user_id) = {}
       THEN Done(p, HTTP_404_NOT_FOUND)
       ELSE \E user \in get_user_by_id(users, conc[p].req.user_id) :
               IF delete_needs_admin(conc[p].current_user)
               THEN Done(p, HTTP_403_FORBIDDEN)
               ELSE IF delete_is_self(conc[p].current_user, conc[p].req.user_id)
               THEN Done(p, HTTP_400_BAD_REQUEST)
               ELSE conc' = [conc EXCEPT ![p].pc = "delete", ![p].user = user]
    /\ UNCHANGED <<users, now, admin_created, req, resp, before, issued>>

\* delete_user: db.delete(user) and commit (DELETE ... WHERE id = user.id)
delete_commit(p) ==
    /\ conc[p].pc = "delete"
    /\ users' = {u \in users : u.id # conc[p].user.id}
    /\ Done(p, HTTP_200_OK)
    /\ UNCHANGED <<now, admin_created, req, resp, before, issued>>

NextRace ==
    \/ \E p \in Procs, r \in RaceRequests : begin(p, r)
    \/ \E p \in Procs : register_check(p)
    \/ \E p \in Procs : register_insert(p)
    \/ \E p \in Procs : create_admin_check(p)
    \/ \E p \in Procs : create_admin_insert(p)
    \/ \E p \in Procs : delete_resolve(p)
    \/ \E p \in Procs : delete_checks(p)
    \/ \E p \in Procs : delete_commit(p)

SpecRace == InitRace /\ [][NextRace]_vars

\* ================================================================ claims
\* In the state a handler leaves, req is the request it answered, before the
\* store it found, users the store it left and resp its response.

\* the bearer token resolves, in store db at the current time, to a user of
\* the given role
ResolvesTo(token, db, role) ==
    /\ token.sig
    /\ token.exp >= now
    /\ \E c \in db : c.email = token.sub /\ c.role = role

\* the bearer token resolves to no user of store db at the current time
Unresolvable(token, db) ==
    \/ ~token.sig
    \/ token.exp < now
    \/ token.sub = "None"
    \/ \A u \in db : u.email # token.sub

\* C1: after any sequence of atomically executed register, create-admin,
\* update_user, promote_to_admin and delete_user requests the store never
\* holds two user records with the same email.
C1_OneRecordPerEmail ==
    \A u \in users : \A v \in users : u.email = v.email => u = v

\* a change of email onto another user's email was refused
C1_Witness ==
    /\ req.op = "update_user"
    /\ resp.status = 400
    /\ \E u \in users : u.id = req.user_id /\ u.email # req.email
    /\ \E v \in users : v.id # req.user_id /\ v.email = req.email

\* C2: a record has role ADMIN only if create-admin created it while the
\* store held no ADMIN, or promote_to_admin promoted it for a caller who
\* resolved to an ADMIN; register stores role USER whatever role the client
\* sent; update_user, login, refresh and logout change no user's role.
C2_AdminOnlyByBootstrapOrPromotion ==
    /\ \A u \in users :
          u.role = "admin" =>
             \/ \E v \in before : v.id = u.id /\ v.role = "admin"
             \/ /\ req.op = "create_admin_user"
                /\ \A v \in before : v.role # "admin" /\ v.id # u.id
             \/ /\ req.op = "promote_to_admin"
                /\ u.email = req.email
                /\ ResolvesTo(req.token, before, "admin")
    /\ req.op = "register" => \A u \in users \ before : u.role = "user"
    /\ req.op \in {"update_user", "login", "refresh_token", "logout"} =>
          \A u \in users : \A v \in before : u.id = v.id => u.role = v.role

\* a registration that asked for role ADMIN was stored with role USER
C2_Witness ==
    /\ req.op = "register"
    /\ req.role = "admin"
    /\ resp.status = 200
    /\ \E u \in users \ before : u.email = req.email /\ u.role = "user"

\* C3: create-admin succeeds at most once per store lifetime: once a call has
\* succeeded every later call, with any email, fails with 400 and creates no
\* user; a call made while an ADMIN exists or with a registered email fails
\* with 400.
C3_BootstrapOnce ==
    /\ admin_created <= 1
    /\ req.op = "create_admin_user" =>
          /\ resp.status \in {200, 400}
          /\ resp.status = 200 => admin_created = 1
          /\ resp.status = 400 => users = before
          /\ ( \/ \E u \in before : u.role = "admin"
               \/ \E u \in before : u.email = req.email ) => resp.status = 400

\* after the one success, a create-admin call for an email that is not in the
\* store was refused
C3_Witness ==
    /\ admin_created = 1
    /\ req.op = "create_admin_user"
    /\ resp.status = 400
    /\ resp.detail = "Admin user already exists"
    /\ \A u \in before : u.email # req.email

\* C4: identity resolution fails with one and the same 401 response for a
\* token with an invalid signature, an expired token, a token without sub and
\* a valid unexpired token whose sub matches no user in the store; in every
\* other case it returns the stored user whose email equals the token's sub.
C4_UniformUnauthorized ==
    req.op = "get_current_user_profile" =>
       IF Unresolvable(req.token, before)
       THEN resp = [status |-> 401, detail |-> "Could not validate credentials",
                    access_token |-> NoToken, refresh_token |-> NoToken,
                    user |-> NoSummary, listing |-> {}]
       ELSE /\ resp.status = 200
            /\ resp.user.email = req.token.sub
            /\ \E u \in before :
                  resp.user = [id |-> u.id, email |-> u.email,
                               name |-> u.name, role |-> u.role]

\* a correctly signed, unexpired token with a sub was refused because no user
\* of the store has that email
C4_Witness ==
    /\ req.op = "get_current_user_profile"
    /\ resp.status = 401
    /\ req.token.sig
    /\ req.token.exp >= now
    /\ req.token.sub \in Emails
    /\ \A u \in users : u.email # req.token.sub
    /\ admin_created = 1
    /\ Cardinality(users) = 1

\* C5: refresh succeeds only for a correctly signed, unexpired token with
\* type = "refresh" and a sub, and otherwise fails with 401; on success it
\* issues exactly one new access token with the same sub and a 30-minute
\* expiry and no refresh token; it neither reads nor changes the user store,
\* so it also succeeds when the subject has no record in the store.
C5_RefreshIssuesAccessOnly ==
    req.op = "refresh_token" =>
       /\ users = before
       /\ IF /\ req.token.sig
             /\ req.token.exp >= now
             /\ req.token.typ = "refresh"
             /\ req.token.sub # "None"
          THEN /\ resp.status = 200
               /\ resp.access_token =
                     [sub |-> req.token.sub, typ |-> "None", exp |-> now + 30, sig |-> TRUE]
               /\ resp.refresh_token = NoToken
          ELSE /\ resp.status = 401
               /\ resp.access_token = NoToken
               /\ resp.refresh_token = NoToken

\* a refresh succeeded for a subject that has no record in the store
C5_Witness ==
    /\ req.op = "refresh_token"
    /\ resp.status = 200
    /\ \A u \in users : u.email # req.token.sub
    /\ admin_created = 1
    /\ Cardinality(users) = 1

\* C6: a register request whose email is already in the store fails with 400
\* and leaves the user store unchanged.
C6_DuplicateRegisterRejected ==
    (req.op = "register" /\ \E u \in before : u.email = req.email) =>
       /\ resp.status = 400
       /\ resp.detail = "Email already registered"
       /\ users = before

\* a second registration of an email, with another name and password, was
\* refused while the store had room for it
C6_Witness ==
    /\ req.op = "register"
    /\ resp.status = 400
    /\ Cardinality(users) = 1
    /\ \E u \in users :
          /\ u.email = req.email
          /\ u.name # req.name
          /\ u.hashed_password.digest_of # req.password

\* C7: promote_to_admin is idempotent: called by an ADMIN on a target that is
\* already ADMIN it returns success without changing the store, and a
\* successful promotion leaves the target ADMIN (so a second promotion is the
\* first case); on an email absent from the store it fails with 404 and
\* changes nothing.
C7_PromoteIdempotent ==
    (req.op = "promote_to_admin" /\ ResolvesTo(req.token, before, "admin")) =>
       /\ (\E u \in before : u.email = req.email /\ u.role = "admin")
             => resp.status = 200 /\ users = before
       /\ (\A u \in before : u.email # req.email)
             => resp.status = 404 /\ users = before
       /\ resp.status = 200
             => \E u \in users : u.email = req.email /\ u.role = "admin"

\* an ADMIN promoted another user who already was ADMIN and got success
C7_Witness ==
    /\ req.op = "promote_to_admin"
    /\ resp.status = 200
    /\ users = before
    /\ \E u \in before : u.email = req.email /\ u.role = "admin"
    /\ \E c \in before : c.email = req.token.sub /\ c.email # req.email

\* C8: for promote_to_admin and get_users identity is resolved before the
\* role is checked and before any target lookup: an unresolvable token gets
\* 401, a token that resolves to a non-ADMIN gets 403 even when the promote
\* target does not exist, and only an ADMIN caller reaches 404 or success.
C8_ResolveThenRoleThenTarget ==
    req.op \in {"promote_to_admin", "get_users"} =>
       /\ Unresolvable(req.token, before) => resp.status = 401
       /\ ResolvesTo(req.token, before, "user") => resp.status = 403
       /\ resp.status \in {200, 404} => ResolvesTo(req.token, before, "admin")
       /\ resp.status \in {200, 401, 403, 404}
       /\ resp.status \in {401, 403, 404} => users = before

\* a non-ADMIN caller asked to promote an email that is not in the store and
\* got 403
C8_Witness ==
    /\ req.op = "promote_to_admin"
    /\ resp.status = 403
    /\ ResolvesTo(req.token, before, "user")
    /\ \A u \in before : u.email # req.email

\* the request is a delete_user whose caller resolves to the user with the
\* target id
SelfDelete ==
    /\ req.op = "delete_user"
    /\ ~Unresolvable(req.token, before)
    /\ \E c \in before : c.email = req.token.sub /\ c.id = req.user_id

\* C9 as stated: a delete_user request whose target id is the caller's own
\* id fails with 403 for every authenticated caller, ADMIN or not, and leaves
\* the user store unchanged.
C9_SelfDeleteForbidden ==
    SelfDelete => resp.status = 403 /\ users = before

\* C9 amended: a delete_user request whose target id is the caller's own id
\* fails and leaves the user store unchanged: with 403 for a non-ADMIN
\* caller, with 400 for an ADMIN caller.
C9_SelfDeleteRefused ==
    SelfDelete =>
       /\ ResolvesTo(req.token, before, "user") => resp.status = 403
       /\ ResolvesTo(req.token, before, "admin") => resp.status = 400
       /\ resp.status \in {400, 403}
       /\ users = before

\* an ADMIN asked to delete their own account and was refused with 400
C9_Witness ==
    /\ SelfDelete
    /\ ResolvesTo(req.token, before, "admin")
    /\ resp.status = 400
    /\ resp.detail = "Cannot delete your own account"

\* C10: a record leaves the store only by a delete_user request whose caller
\* resolves to an ADMIN and whose target id differs from the caller's id; the
\* request removes exactly the target record and changes no other record;
\* every other request removes no record.
C10_OnlyAdminDeletesOthers ==
    \A u \in before :
       (\A v \in users : v.id # u.id) =>
          /\ req.op = "delete_user"
          /\ req.user_id = u.id
          /\ resp.status = 200
          /\ \E c \in before :
                c.email = req.token.sub /\ c.role = "admin" /\ c.id # u.id
          /\ ResolvesTo(req.token, before, "admin")
          /\ users = before \ {u}

\* an ADMIN deleted another ADMIN and is still in the store
C10_Witness ==
    /\ req.op = "delete_user"
    /\ resp.status = 200
    /\ \E u \in before : u.id = req.user_id /\ u.role = "admin" /\ u \notin users
    /\ \E c \in users : c.email = req.token.sub /\ c.role = "admin"

\* C12: login fails with one and the same 401 response when the email is not
\* in the store and when the password does not match the stored hash; when
\* both match it returns an access and a refresh token whose sub is the
\* user's email together with the user's current stored role; in every case
\* the user store is unchanged.
C12_LoginUniformFailure ==
    req.op = "login" =>
       /\ users = before
       /\ IF \E u \in before :
                u.email = req.email /\ u.hashed_password.digest_of = req.password
          THEN /\ resp.status = 200
               /\ resp.access_token.sig
               /\ resp.access_token.sub = req.email
               /\ resp.access_token.typ = "None"
               /\ resp.refresh_token.sig
               /\ resp.refresh_token.sub = req.email
               /\ resp.refresh_token.typ = "refresh"
               /\ \E u \in before :
                     /\ u.email = req.email
                     /\ resp.user = [id |-> u.id, email |-> u.email,
                                     name |-> u.name, role |-> u.role]
          ELSE resp = [status |-> 401, detail |-> "Incorrect email or password",
                       access_token |-> NoToken, refresh_token |-> NoToken,
                       user |-> NoSummary, listing |-> {}]

\* a login with the email of a stored user and a wrong password was refused
C12_Witness ==
    /\ req.op = "login"
    /\ resp.status = 401
    /\ \E u \in users :
          u.email = req.email /\ u.hashed_password.digest_of # req.password

\* C13: update_user changes a record only when the caller is the target or
\* an ADMIN; a non-ADMIN caller updating another user's id gets 403, a new
\* email that belongs to another user gets 400, and in both cases the store
\* is unchanged; a successful update changes only the target's email and
\* name and leaves its id, role and hashed_password and every other record
\* unchanged.
C13_UpdateFrame ==
    req.op = "update_user" =>
       /\ resp.status # 200 => users = before
       /\ resp.status = 200 =>
             /\ \E c \in before :
                   /\ c.email = req.token.sub
                   /\ c.id = req.user_id \/ c.role = "admin"
             /\ \E t \in before :
                   /\ t.id = req.user_id
                   /\ users = (before \ {t}) \cup
                         {[id |-> t.id, email |-> req.email, name |-> req.name,
                           hashed_password |-> t.hashed_password, role |-> t.role]}
       /\ ( /\ \E t \in before : t.id = req.user_id
            /\ \E c \in before :
                  c.email = req.token.sub /\ c.id # req.user_id /\ c.role = "user"
            /\ ~Unresolvable(req.token, before) ) => resp.status = 403
       /\ ( /\ \E t \in before : t.id = req.user_id /\ t.email # req.email
            /\ \E o \in before : o.id # req.user_id /\ o.email = req.email
            /\ \E c \in before :
                  /\ c.email = req.token.sub
                  /\ c.id = req.user_id \/ c.role = "admin"
            /\ ~Unresolvable(req.token, before) ) => resp.status = 400

\* an ADMIN changed the name of another user, whose other fields are kept
C13_Witness ==
    /\ req.op = "update_user"
    /\ resp.status = 200
    /\ \E c \in before : c.email = req.token.sub /\ c.id # req.user_id
    /\ \E t \in before : t.id = req.user_id /\ t.name # req.name
    /\ users # before

C18_RefreshTokenRejectedAsBearer ==
    (req.op = "get_current_user_profile" /\ req.token.typ = "refresh")
       => resp.status = 401

\* C16 as stated: whenever identity resolution accepts a token, the user it
\* returns is the user (same id) to whom the token was issued, whatever
\* email changes, deletions and registrations happened in between.
C16_ResolvesToRecipient ==
    ( /\ req.op = "get_current_user_profile"
      /\ resp.status = 200
      /\ req.token.typ = "None"
      /\ req.token.exp > now
      /\ \E i \in issued : i.token = req.token )
       => \E i \in issued : i.token = req.token /\ i.id = resp.user.id

\* C11: a token issued at time t with ttl T (30 minutes for access tokens,
\* 7 days for refresh tokens) carries exp = t + T, and verification accepts
\* it at every time before t + T and rejects it at every time after t + T,
\* in every reachable state: whatever requests, uses of the token and logout
\* calls came before.  The tokens presented are those issued at t = 0.
C11_TokenExpiry ==
    /\ (resp.status = 200 /\ req.op \in {"register", "login", "create_admin_user",
                                         "refresh_token"})
          => resp.access_token.exp = now + 30
    /\ (resp.status = 200 /\ req.op \in {"register", "login"})
          => resp.refresh_token.exp = now + 7 * 24 * 60
    /\ ( /\ req.op = "refresh_token"
         /\ req.token.sig /\ req.token.typ = "refresh" /\ req.token.sub # "None" )
          => /\ req.token.exp = 0 + 7 * 24 * 60
             /\ now < 0 + 7 * 24 * 60 => resp.status = 200
             /\ now > 0 + 7 * 24 * 60 => resp.status = 401
    /\ ( /\ req.op = "get_current_user_profile"
         /\ req.token.sig /\ req.token.typ = "None"
         /\ \E u \in before : u.email = req.token.sub )
          => /\ req.token.exp = 0 + 30
             /\ now < 0 + 30 => resp.status = 200
             /\ now > 0 + 30 => resp.status = 401

\* a refresh token issued at time 0 was accepted 30 minutes later, and the
\* access token it bought expires 30 minutes after that
C11_Witness ==
    /\ req.op = "refresh_token"
    /\ req.token.typ = "refresh"
    /\ now = 30
    /\ resp.status = 200
    /\ resp.access_token.exp = 60

\* two workers hold requests to create a row for the same email, at least
\* one of them a register
SameEmailRace ==
    /\ \A p \in Procs : conc[p].req.op \in {"register", "create_admin_user"}
    /\ \E p \in Procs : conc[p].req.op = "register"
    /\ \A p, q \in Procs : conc[p].req.email = conc[q].req.email

\* C14: when two register requests (or a register and a create-admin) for
\* the same email run concurrently, check and insert being separate steps,
\* at most one of them inserts a record, and the store holds at most one
\* record per email under every interleaving.
C14_OneInsertPerEmail ==
    /\ \A u, v \in users : u.email = v.email => u = v
    /\ SameEmailRace =>
          /\ Cardinality({p \in Procs : conc[p].status = 200}) <= 1
          /\ Cardinality(users) <= Cardinality(before) + 1

\* both requests passed their existence check; one inserted the row and the
\* other's insert was refused by the store
C14_Witness ==
    /\ SameEmailRace
    /\ \E p, q \in Procs :
          /\ conc[p].pc = "done" /\ conc[p].status = 200
          /\ conc[q].pc = "done" /\ conc[q].status = 500
    /\ Cardinality(users) = Cardinality(before) + 1

\* C15 as stated: when two create-admin requests with different emails run
\* concurrently, check and insert being separate steps, at most one of them
\* succeeds and creates an ADMIN.
C15_OneBootstrapUnderRace ==
    ( /\ \A p \in Procs : conc[p].req.op = "create_admin_user"
      /\ \E p, q \in Procs : conc[p].req.email # conc[q].req.email )
       => Cardinality({p \in Procs : conc[p].status = 200}) <= 1

\* C19 as stated: when two different ADMINs concurrently delete each other,
\* resolution, checks and delete being separate steps, the store still
\* holds at least one ADMIN after both requests complete.
C19_AdminSurvivesMutualDelete ==
    ( /\ \A p \in Procs : conc[p].pc = "done" /\ conc[p].req.op = "delete_user"
      /\ \E a, b \in before :
            /\ a # b
            /\ a.role = "admin" /\ b.role = "admin"
            /\ conc["w1"].req.token.sub = a.email /\ conc["w1"].req.user_id = b.id
            /\ conc["w2"].req.token.sub = b.email /\ conc["w2"].req.user_id = a.id )
       => \E u \in users : u.role = "admin"
====
